---------------------------- MODULE Spec2Model ----------------------------
(***************************************************************************)
(* GraphAuthManager (src/src/mcp_sharepoint/auth.py) as a state machine.   *)
(*                                                                         *)
(* The tool layer (tools.py, _run_async) runs every method of the one      *)
(* process-wide GraphAuthManager on a worker thread (asyncio.to_thread),   *)
(* so calls overlap.  Each method is cut into steps at its accesses to     *)
(* shared state: the active pointer, the pending-flow map, the token cache *)
(* (account enumeration), its changed flag, the cache lock and the cache   *)
(* file.  A step is one such access together with the thread-local         *)
(* computation that follows it.                                            *)
(***************************************************************************)
EXTENDS Naturals, Sequences, FiniteSets, TLC

(***************************************************************************)
(* Bounds of the model.                                                    *)
(***************************************************************************)
\* identities the identity provider knows (accounts that can ever be stored)
MaxAccounts == 2
\* flow identifiers start_device_login can draw
MaxFlows == 2
\* calls made in one run, over all threads, plus accounts that leave the store
MaxCalls == 3

\* The worker threads the calls run on.
Threads == {"t1", "t2"}
ThreadNo(t) == IF t = "t1" THEN 1 ELSE 2

\* Python None, for identifiers and usernames.
None == "None"

\* The identity provider's accounts: home_account_id and username as they
\* appear in the account records get_accounts() returns.  Usernames of two
\* identities may differ only in case ("could contain mixed case").
AllIdentities ==
    << [home_account_id |-> "h1", username |-> "alice"],
       [home_account_id |-> "h2", username |-> "ALICE"],
       [home_account_id |-> "h3", username |-> "bob"],
       [home_account_id |-> "h4", username |-> "bob"] >>

Identities == {AllIdentities[i] : i \in 1..MaxAccounts}

\* "no account" (Python None where an account record is expected)
NoAccount == [home_account_id |-> None, username |-> ""]

\* str.lower() on the usernames in use
Lower(u) ==
    CASE u = "ALICE" -> "alice"
      [] u = "Alice" -> "alice"
      [] OTHER       -> u

\* Selector values a caller passes to set_active_account.
HidArgs == {None} \cup {a.home_account_id : a \in Identities}
UsernameArgs == {None, "Alice"}

\* Flow identifiers: uuid4 values, modelled as numbers drawn in order; 0 is an
\* identifier start_device_login never returns.
FlowIds == 1..MaxFlows
FlowIdArgs == 0..MaxFlows

VARIABLES
    accounts,       \* the token cache's accounts, in get_accounts() order
    rev,            \* generation of the token material held in the token cache
    dirty,          \* _token_cache.has_state_changed
    file,           \* content of the file at _cache_path
    lockHolder,     \* the thread holding _cache_lock, or None
    active,         \* _active_account_id
    pending,        \* _pending_device_flows: the (flow id, flow) entries
    nextFlow,       \* flow ids drawn so far
    active_drive_id, \* GraphClient._active_drive_id
    pc,             \* per thread: where it is in its call ("idle": no call)
    op,             \* per thread: the method of its current or last call
    arg,            \* per thread: that call's arguments
    local,          \* per thread: that call's local variables
    res,            \* per thread: what its last call returned or raised
    ncalls,         \* calls made so far (and accounts that left the store)
    calls,          \* per thread: calls begun since no call was last in flight (capped at 2)
    activeAtStart,  \* the active pointer when no call was last in flight
    evicted,        \* whether an account left the store since no call was last in flight
    passed,         \* per flow id: complete_device_login calls that got past the lookup
    born            \* flow ids drawn before this manager was constructed

vars == << accounts, rev, dirty, file, lockHolder, active, pending, nextFlow,
           active_drive_id, pc, op, arg, local, res,
           ncalls, calls, activeAtStart, evicted, passed, born >>

shared == << accounts, rev, dirty, file, lockHolder, active, pending, nextFlow >>
cacheVars == << accounts, rev, dirty, file, lockHolder >>
ghost == << ncalls, calls, activeAtStart, evicted, passed, born >>

(***************************************************************************)
(* Data                                                                    *)
(***************************************************************************)
\* AccountSummary (the fields the claims read; name, environment and
\* tenant_profiles are copied through unchanged)
NoSummary == [username |-> "", home_account_id |-> None, is_active |-> FALSE]

\* _serialize_account: is_active compares with the pointer as it is now
SerializeAccount(account, activeNow) ==
    IF account = NoAccount THEN NoSummary
    ELSE [username |-> account.username,
          home_account_id |-> account.home_account_id,
          is_active |-> (account.home_account_id = activeNow)]

\* summary.is_active = True
MarkActive(summary) ==
    IF summary = NoSummary THEN NoSummary ELSE [summary EXCEPT !.is_active = TRUE]

\* self._app.get_accounts(): a snapshot of the store
GetAccounts == accounts

\* self._app.get_accounts(username=u): the accounts whose username equals u
\* ignoring case, in store order
GetAccountsByUsername(u) ==
    SelectSeq(accounts, LAMBDA a : Lower(a.username) = Lower(u))

HidsOf(accts) == {accts[i].home_account_id : i \in DOMAIN accts}

\* token_cache.serialize() / deserialize(): the blob holds the accounts and
\* the token material
Serialize(accts, r) == [json |-> << accts, r >>]
FileMissing == [json |-> << <<>>, 0 >>, missing |-> TRUE]

\* Other things the manager can find at the cache path when it starts: an
\* empty file; a file or directory that cannot be read (read_text raises
\* OSError); bytes that are not UTF-8 (read_text raises UnicodeDecodeError);
\* text that is not JSON, such as a write cut short (deserialize raises
\* json.JSONDecodeError)
FileEmptyText == [text |-> ""]
FileUnreadable == [error |-> "OSError"]
FileUndecodable == [error |-> "UnicodeDecodeError"]
FileTruncated == [text |-> "{"]
StartupFiles == {FileMissing, FileEmptyText, FileUnreadable, FileUndecodable, FileTruncated}

\* a cache that comes up empty whatever was saved
LoadNothing(f) == [raised |-> None, accounts |-> << >>, rev |-> 0]

\* lines 58-65: the token cache the constructor ends up with, or the
\* exception that leaves it (UnicodeDecodeError and JSONDecodeError are
\* ValueErrors, which "except OSError" does not catch)
LoadCache(f) ==
    IF f = FileMissing \/ f = FileEmptyText \/ f = FileUnreadable
      THEN [raised |-> None, accounts |-> << >>, rev |-> 0]
    ELSE IF f = FileUndecodable \/ f = FileTruncated
      THEN [raised |-> "ValueError", accounts |-> << >>, rev |-> 0]
    ELSE [raised |-> None, accounts |-> f.json[1], rev |-> f.json[2]]
NoBlob == [json |-> << >>]

\* The fields of the device-flow exchange's result that name the user:
\* result["account"]["username"] and the preferred_username and email claims
\* of result["id_token_claims"] (None: absent or empty)
NoExchange == [account_username |-> None, preferred_username |-> None, email |-> None]

\* the dict a device-flow method returns (empty: it returned none)
NoPayload == << >>

\* What a call returned or raised.
NoResult ==
    [kind |-> "none", account |-> NoSummary, accounts |-> << >>,
     token |-> None, flow_id |-> 0, provider |-> None, reported |-> None,
     saved |-> None, sent |-> << >>, acquired |-> << >>, download |-> FALSE,
     result |-> NoExchange, payload |-> NoPayload, http |-> None]

\* the call raised exc, after the identity provider answered with outcome
\* (None: the provider was not asked)
RaiseAfter(exc, outcome) == [NoResult EXCEPT !.kind = exc, !.provider = outcome]
Raise(exc) == [NoResult EXCEPT !.kind = exc]
AuthenticationError == "AuthenticationError"
AuthenticationFlowNotFound == "AuthenticationFlowNotFound"
GraphAPIError == "GraphAPIError"
TransportError == "TransportError"

\* A call's local variables.
NoLocal ==
    [accts |-> << >>, idx |-> 0, account |-> NoAccount, summary |-> NoSummary,
     flags |-> << >>, pref |-> None, token |-> None, outcome |-> None,
     blob |-> NoBlob, saved |-> None,
     sent |-> << >>, acquired |-> << >>, req |-> 0,
     result |-> NoExchange, http |-> None]

NoArg == [home_account_id |-> None, username |-> None, flow_id |-> 0, drive_id |-> None]

\* GraphClient operations: get_drive makes one _request; get_item_content
\* makes one or two and then downloads
GraphOps == {"get_drive", "get_item_content"}

\* the GraphClient operations with the one that writes the active drive:
\* set_active_drive calls get_drive and then writes it (get_item_content
\* falls back to it)
DriveOps == {"set_active_drive"} \cup GraphOps

\* the drive identifiers callers pass
DriveIds == {"d1", "d2"}

\* the calls in which acquire_token_silent runs
TokenOps == {"acquire_token_silent"} \cup DriveOps

\* the methods of GraphAuthManager
Ops == {"start_device_login", "complete_device_login", "list_accounts",
        "set_active_account", "get_active_account_summary", "get_context",
        "acquire_token_silent"}

ArgsOf(o) ==
    CASE o = "set_active_account" ->
            {[NoArg EXCEPT !.home_account_id = h, !.username = u] :
                h \in HidArgs, u \in UsernameArgs}
      [] o = "complete_device_login" ->
            {[NoArg EXCEPT !.flow_id = f] : f \in FlowIdArgs}
      [] o = "get_drive" ->
            {[NoArg EXCEPT !.drive_id = "d1"]}
      [] o = "set_active_drive" ->
            {[NoArg EXCEPT !.drive_id = d] : d \in DriveIds}
      [] o = "get_item_content" ->
            {[NoArg EXCEPT !.drive_id = d] : d \in {None, "d1"}}
      [] OTHER -> {NoArg}

FirstLabel(o) ==
    CASE o = "start_device_login" -> "sd_initiate"
      [] o = "complete_device_login" -> "cd_pop"
      [] o = "list_accounts" -> "la_accounts"
      [] o = "set_active_account" -> "sa_accounts"
      [] o = "get_drive" -> "rq_begin"
      [] o = "set_active_drive" -> "rq_begin"
      [] o = "get_item_content" -> "gi_drive"
      [] OTHER -> "ga_check"

\* The stores a manager can start with: whatever earlier runs persisted.
InitStores ==
    {s \in UNION {[1..n -> Identities] : n \in 0..MaxAccounts} :
        \A i, j \in DOMAIN s : i # j => s[i] # s[j]}

Init ==
    /\ accounts \in InitStores
    /\ rev = 0
    /\ dirty = FALSE
    /\ file = IF accounts = << >> THEN FileMissing ELSE Serialize(accounts, 0)
    /\ lockHolder = None
    /\ active = None
    /\ pending = {}
    /\ nextFlow = 0
    /\ active_drive_id = None
    /\ pc = [t \in Threads |-> "idle"]
    /\ op = [t \in Threads |-> "none"]
    /\ arg = [t \in Threads |-> NoArg]
    /\ local = [t \in Threads |-> NoLocal]
    /\ res = [t \in Threads |-> NoResult]
    /\ ncalls = 0
    /\ calls = [t \in Threads |-> 0]
    /\ activeAtStart = None
    /\ evicted = FALSE
    /\ passed = [f \in FlowIds |-> 0]
    /\ born = 0

(***************************************************************************)
(* Steps                                                                   *)
(***************************************************************************)
Quiet == \A t \in Threads : pc[t] = "idle"

\* thread t moves to label l with locals loc
Goto(t, l, loc) ==
    /\ pc' = [pc EXCEPT ![t] = l]
    /\ local' = [local EXCEPT ![t] = loc]
    /\ res' = res

\* thread t's call ends with r
Return(t, r) ==
    /\ pc' = [pc EXCEPT ![t] = "idle"]
    /\ local' = [local EXCEPT ![t] = NoLocal]
    /\ res' = [res EXCEPT ![t] = r]

\* the constructor raised: there is no manager to call (common.py lines
\* 80-86 construct it when the server module is imported)
Down == op["t1"] = "__init__" /\ res["t1"].kind # "ok"

\* The worker thread the next call runs on: to_thread takes any free worker,
\* and the code never reads the thread's identity, so the first free one.
FreeThread ==
    IF \A t \in Threads : pc[t] # "idle" THEN None
    ELSE CHOOSE t \in Threads :
            /\ pc[t] = "idle"
            /\ \A u \in Threads : pc[u] = "idle" => ThreadNo(t) <= ThreadNo(u)

\* A tool invocation reaches the manager: _run_async hands the method to a
\* worker thread.  What earlier calls returned is kept until the next call
\* that begins with no call in flight.  The methods called are those in
\* called; calls of the methods in overlapping may begin while another such
\* call is in flight; the others run alone.
CallOf(t, called, overlapping) ==
    /\ t = FreeThread
    /\ ~Down
    /\ ncalls < MaxCalls
    /\ \E o \in (IF Quiet THEN called ELSE overlapping) : \E a \in ArgsOf(o) :
        /\ \A u \in Threads : pc[u] # "idle" => op[u] \in overlapping
        /\ op' = [u \in Threads |-> IF u = t THEN o ELSE IF Quiet THEN "none" ELSE op[u]]
        /\ arg' = [u \in Threads |-> IF u = t THEN a ELSE IF Quiet THEN NoArg ELSE arg[u]]
        /\ pc' = [pc EXCEPT ![t] = FirstLabel(o)]
    /\ local' = [local EXCEPT ![t] = NoLocal]
    /\ res' = [u \in Threads |-> IF u = t \/ Quiet THEN NoResult ELSE res[u]]
    /\ ncalls' = ncalls + 1
    /\ IF Quiet
         THEN /\ calls' = [u \in Threads |-> IF u = t THEN 1 ELSE 0]
              /\ activeAtStart' = active
              /\ evicted' = FALSE
         ELSE /\ calls' = [calls EXCEPT ![t] = IF calls[t] = 0 THEN 1 ELSE 2]
              /\ UNCHANGED << activeAtStart, evicted >>
    /\ UNCHANGED << shared, passed, born, active_drive_id >>

\* every method of the manager may be called
Call(t, overlapping) == CallOf(t, Ops, overlapping)

\* what a step of a call leaves alone besides the shared state it names
Frame ==
    UNCHANGED << op, arg, ncalls, calls, activeAtStart, evicted, born, active_drive_id >>

(***************************************************************************)
(* set_active_account                                                      *)
(***************************************************************************)
\* the loop's test for one account (lines 139 and 145)
Matches(account, home_account_id, username) ==
    \/ home_account_id # None /\ account.home_account_id = home_account_id
    \/ username # None /\ Lower(account.username) = Lower(username)

\* a search that falls back to the first account when nothing matches
FirstMatchOrFirst(accts, home_account_id, username) ==
    LET hits == {i \in DOMAIN accts : Matches(accts[i], home_account_id, username)}
    IN  IF hits = {} THEN (IF accts = << >> THEN 0 ELSE 1)
        ELSE CHOOSE i \in hits : \A j \in hits : i <= j

\* a search that returns at the last account that matches
LastMatch(accts, home_account_id, username) ==
    LET hits == {i \in DOMAIN accts : Matches(accts[i], home_account_id, username)}
    IN  IF hits = {} THEN 0 ELSE CHOOSE i \in hits : \A j \in hits : i >= j

\* index of the first account of accts the loop returns at (0: none)
FirstMatch(accts, home_account_id, username) ==
    LET hits == {i \in DOMAIN accts : Matches(accts[i], home_account_id, username)}
    IN  IF hits = {} THEN 0 ELSE CHOOSE i \in hits : \A j \in hits : i <= j

\* an assignment that takes the wrong field of the account
SelectedUsername(account, home_account_id) == account.username

\* the value the loop assigns to _active_account_id (line 140 or 146)
SelectedId(account, home_account_id) ==
    IF home_account_id # None /\ account.home_account_id = home_account_id
        THEN home_account_id
        ELSE account.home_account_id

\* lines 135-138 and the search of the snapshot
SaAccounts(t) ==
    /\ pc[t] = "sa_accounts"
    /\ LET a == arg[t]
           accts == GetAccounts
           i == FirstMatch(accts, a.home_account_id, a.username)
       IN  IF a.home_account_id = None /\ a.username = None
             THEN Return(t, Raise(AuthenticationError))
           ELSE IF i = 0
             THEN Return(t, Raise(AuthenticationError))
           ELSE Goto(t, "sa_write", [local[t] EXCEPT !.account = accts[i]])
    /\ Frame
    /\ UNCHANGED << shared, passed >>

\* lines 140-144 / 146-150: the write of the pointer and the summary
SaWrite(t) ==
    /\ pc[t] = "sa_write"
    /\ active' = SelectedId(local[t].account, arg[t].home_account_id)
    /\ Return(t, [NoResult EXCEPT !.kind = "ok",
                    !.account = MarkActive(SerializeAccount(local[t].account, active'))])
    /\ Frame
    /\ UNCHANGED << cacheVars, pending, nextFlow, passed >>

(***************************************************************************)
(* get_active_account, and what its callers do with the account            *)
(***************************************************************************)
\* the locals of the GraphClient operation a call to the manager runs in
Keep(t) ==
    [NoLocal EXCEPT !.sent = local[t].sent, !.acquired = local[t].acquired,
                    !.req = local[t].req]

\* get_active_account returns account to its caller (lines 155, 163-164, 269)
GaReturn(t, account) ==
    IF op[t] \in TokenOps
      THEN IF account # NoAccount
             THEN Goto(t, "at_provider", [Keep(t) EXCEPT !.account = account])
             ELSE Goto(t, "at_accounts", Keep(t))
    ELSE IF account # NoAccount
      THEN Goto(t, "gs_serialize", [NoLocal EXCEPT !.account = account])
    ELSE IF op[t] = "get_context"
      THEN Goto(t, "la_accounts", NoLocal)
    ELSE Return(t, [NoResult EXCEPT !.kind = "ok"])

\* a test that takes whichever account comes first
IsActiveAny(account, activeNow) == TRUE

\* a test that recognises no account
IsActiveNever(account, activeNow) == FALSE

\* line 122: the loop's test for one account
IsActive(account, activeNow) == account.home_account_id = activeNow

\* line 119
GaCheck(t) ==
    /\ pc[t] = "ga_check"
    /\ IF active = None
         THEN GaReturn(t, NoAccount)
         ELSE Goto(t, "ga_accounts", local[t])
    /\ Frame
    /\ UNCHANGED << shared, passed >>

\* line 121: the enumeration the loop runs over
GaAccounts(t) ==
    /\ pc[t] = "ga_accounts"
    /\ LET accts == GetAccounts
       IN  IF accts = << >>
             THEN Goto(t, "ga_reset", [local[t] EXCEPT !.accts = accts])
             ELSE Goto(t, "ga_loop", [local[t] EXCEPT !.accts = accts, !.idx = 1])
    /\ Frame
    /\ UNCHANGED << shared, passed >>

\* line 122: one iteration, which reads the pointer again
GaLoop(t) ==
    /\ pc[t] = "ga_loop"
    /\ LET l == local[t]
       IN  IF IsActive(l.accts[l.idx], active)
             THEN GaReturn(t, l.accts[l.idx])
           ELSE IF l.idx < Len(l.accts)
             THEN Goto(t, "ga_loop", [l EXCEPT !.idx = l.idx + 1])
           ELSE Goto(t, "ga_reset", l)
    /\ Frame
    /\ UNCHANGED << shared, passed >>

\* lines 124-125
GaReset(t) ==
    /\ pc[t] = "ga_reset"
    /\ active' = None
    /\ GaReturn(t, NoAccount)
    /\ Frame
    /\ UNCHANGED << cacheVars, pending, nextFlow, passed >>

\* get_active_account_summary, line 155: _serialize_account reads the pointer
GsSerialize(t) ==
    /\ pc[t] = "gs_serialize"
    /\ LET s == SerializeAccount(local[t].account, active)
       IN  IF op[t] = "get_context"
             THEN Goto(t, "la_accounts", [NoLocal EXCEPT !.summary = s])
             ELSE Return(t, [NoResult EXCEPT !.kind = "ok", !.account = s])
    /\ Frame
    /\ UNCHANGED << shared, passed >>

(***************************************************************************)
(* list_accounts (also the second half of get_context)                     *)
(***************************************************************************)
\* the summaries of accts with the given is_active flags
Summaries(accts, flags) ==
    [i \in DOMAIN accts |->
        [username |-> accts[i].username,
         home_account_id |-> accts[i].home_account_id,
         is_active |-> flags[i]]]

\* list_accounts returns (line 116); get_context wraps it (lines 270-275)
LaReturn(t, list) ==
    Return(t, [NoResult EXCEPT !.kind = "ok", !.accounts = list,
                 !.account = local[t].summary])

\* a test that forgets to look at the pointer
AutoSelectAlways(activeNow, accts) == Len(accts) = 1

\* a test that forgets to count the accounts
AutoSelectFirst(activeNow, accts) == activeNow = None /\ accts # << >>

\* line 107: whether the sole account is made active
AutoSelect(activeNow, accts) == activeNow = None /\ Len(accts) = 1

\* lines 103-104 (the flags line 104 computes are all overwritten below)
LaAccounts(t) ==
    /\ pc[t] = "la_accounts"
    /\ Goto(t, "la_check", [local[t] EXCEPT !.accts = GetAccounts, !.idx = 0, !.flags = << >>])
    /\ Frame
    /\ UNCHANGED << shared, passed >>

\* line 107
LaCheck(t) ==
    /\ pc[t] = "la_check"
    /\ LET l == local[t]
       IN  IF AutoSelect(active, l.accts)
             THEN Goto(t, "la_write", l)
           ELSE IF l.accts = << >>
             THEN LaReturn(t, << >>)
           ELSE Goto(t, "la_loop", [l EXCEPT !.idx = 1])
    /\ Frame
    /\ UNCHANGED << shared, passed >>

\* lines 108-110
LaWrite(t) ==
    /\ pc[t] = "la_write"
    /\ active' = local[t].accts[1].home_account_id
    /\ LaReturn(t, Summaries(local[t].accts, << TRUE >>))
    /\ Frame
    /\ UNCHANGED << cacheVars, pending, nextFlow, passed >>

\* lines 112-114: one iteration, which reads the pointer
LaLoop(t) ==
    /\ pc[t] = "la_loop"
    /\ LET l == local[t]
           flags == Append(l.flags, l.accts[l.idx].home_account_id = active)
       IN  IF l.idx < Len(l.accts)
             THEN Goto(t, "la_loop", [l EXCEPT !.idx = l.idx + 1, !.flags = flags])
             ELSE LaReturn(t, Summaries(l.accts, flags))
    /\ Frame
    /\ UNCHANGED << shared, passed >>

(***************************************************************************)
(* _save_cache, called by acquire_token_silent and complete_device_login   *)
(***************************************************************************)
\* the account complete_device_login falls back to (lines 244-246)
LastOf(accts) == IF accts = << >> THEN NoAccount ELSE accts[Len(accts)]

\* header values that put no token in the request
BearerNone(token) == None

\* the Authorization header built from a token (graph.py line 61)
Bearer(token) == token

\* acquire_token_silent returns or raises r: to the tool layer, or to
\* GraphClient._authorization_headers (graph.py lines 60-64), where an
\* exception ends the operation and a token goes into the request's headers
AtReturn(t, r) ==
    IF op[t] = "acquire_token_silent"
      THEN Return(t, r)
    ELSE IF r.kind = "ok"
      THEN Goto(t, "rq_send", [Keep(t) EXCEPT !.token = Bearer(r.token),
                                              !.acquired = Append(local[t].acquired, r.token)])
    ELSE Return(t, [r EXCEPT !.sent = local[t].sent, !.acquired = local[t].acquired])

\* what mkdir and write_text can do
IoOutcomes == {"ok", "OSError"}

\* a lock that never makes a thread wait
LockAlwaysFree(holder) == TRUE

\* line 78: whether "with self._cache_lock" can be entered
LockFree(holder) == holder = None

\* a handler that catches nothing
CaughtNothing(exc) == FALSE

\* lines 82-83: the exceptions _save_cache catches and logs
Caught(exc) == exc = "OSError"

\* _save_cache returns to its caller (line 187, or lines 229-238), or an
\* exception it does not catch leaves the call; saved is what became of the
\* write (None: the flag was not set)
AfterSave(t, saved) ==
    IF saved \notin {None, "ok"} /\ ~Caught(saved)
      THEN Return(t, [NoResult EXCEPT !.kind = saved, !.saved = saved,
                                      !.provider = local[t].outcome])
    ELSE IF op[t] \in TokenOps
      THEN AtReturn(t, [NoResult EXCEPT !.kind = "ok", !.token = local[t].token,
                                          !.provider = local[t].outcome,
                                          !.saved = saved])
    ELSE IF local[t].pref # None
      THEN Goto(t, "cd_match", [NoLocal EXCEPT !.pref = local[t].pref, !.saved = saved,
                                               !.result = local[t].result])
    ELSE Goto(t, "cd_all", [NoLocal EXCEPT !.saved = saved, !.result = local[t].result])

\* line 77: the flag is read outside the lock
ScTest(t) ==
    /\ pc[t] = "sc_test"
    /\ IF dirty THEN Goto(t, "sc_lock", local[t]) ELSE AfterSave(t, None)
    /\ Frame
    /\ UNCHANGED << shared, passed >>

\* lines 78-81: the lock is taken, then mkdir, then serialize() (which resets
\* the flag); an OSError from mkdir is logged and the lock released
ScLock(t, io) ==
    /\ pc[t] = "sc_lock"
    /\ LockFree(lockHolder)
    /\ \E mkdir \in io :
        IF mkdir = "ok"
          THEN /\ dirty' = FALSE
               /\ lockHolder' = t
               /\ Goto(t, "sc_write", [local[t] EXCEPT !.blob = Serialize(accounts, rev)])
          ELSE /\ dirty' = dirty
               /\ lockHolder' = lockHolder
               /\ AfterSave(t, mkdir)
    /\ Frame
    /\ UNCHANGED << accounts, rev, file, active, pending, nextFlow, passed >>

\* line 81: write_text, then the lock is released; an OSError is logged and
\* leaves the file as it was
ScWrite(t, io) ==
    /\ pc[t] = "sc_write"
    /\ \E write \in io :
        /\ IF write = "ok"
             THEN file' = local[t].blob
             ELSE file' = file
        /\ AfterSave(t, write)
    /\ lockHolder' = None
    /\ Frame
    /\ UNCHANGED << accounts, rev, dirty, active, pending, nextFlow, passed >>

(***************************************************************************)
(* acquire_token_silent                                                    *)
(***************************************************************************)
\* what self._app.acquire_token_silent can do: return a token from the cache,
\* return a refreshed token (the cache changes), return None, return an
\* error result, or raise (no connection)
SilentOutcomes == {"cached", "refreshed", "none", "error", "raise"}

\* the access token the provider issues for an account
TokenFor(account) == account.home_account_id

\* a fallback that takes the first account whenever there is one
SoleAccountFirst(accts) == IF accts # << >> THEN accts[1] ELSE NoAccount

\* lines 166-167: the account used when none is active
SoleAccount(accts) == IF Len(accts) = 1 THEN accts[1] ELSE NoAccount

\* lines 165-173
AtAccounts(t) ==
    /\ pc[t] = "at_accounts"
    /\ LET account == SoleAccount(GetAccounts)
       IN  IF account # NoAccount
             THEN Goto(t, "at_write", [local[t] EXCEPT !.account = account])
             ELSE AtReturn(t, Raise(AuthenticationError))
    /\ Frame
    /\ UNCHANGED << shared, passed >>

\* line 168
AtWrite(t) ==
    /\ pc[t] = "at_write"
    /\ active' = local[t].account.home_account_id
    /\ Goto(t, "at_provider", local[t])
    /\ Frame
    /\ UNCHANGED << cacheVars, pending, nextFlow, passed >>

\* a test that takes every result for a token
HasAccessTokenAlways(outcome) == TRUE

\* line 176: whether the result is there and holds an access token
HasAccessToken(outcome) == outcome \in {"cached", "refreshed"}

\* lines 175-184
AtProvider(t) ==
    /\ pc[t] = "at_provider"
    /\ \E outcome \in SilentOutcomes :
        CASE outcome = "raise" ->
                /\ AtReturn(t, RaiseAfter(TransportError, outcome))
                /\ UNCHANGED << rev, dirty >>
          [] HasAccessToken(outcome) ->
                /\ Goto(t, "sc_test", [local[t] EXCEPT !.token = TokenFor(local[t].account),
                                                       !.outcome = outcome])
                /\ rev' = IF outcome = "refreshed" THEN rev + 1 ELSE rev
                /\ dirty' = IF outcome = "refreshed" THEN TRUE ELSE dirty
          [] OTHER ->
                /\ AtReturn(t, RaiseAfter(AuthenticationError, outcome))
                /\ UNCHANGED << rev, dirty >>
    /\ Frame
    /\ UNCHANGED << accounts, file, lockHolder, active, pending, nextFlow, passed >>

(***************************************************************************)
(* start_device_login                                                      *)
(***************************************************************************)
\* the flow initiate_device_flow returns for the n-th initiation: the code
\* the user types, the code the exchange is made with, and what the user is
\* told (the message quotes the user code); values are (kind, content) pairs
DeviceFlow(n) ==
    [user_code |-> << "user_code", n >>,
     device_code |-> << "device_code", n >>,
     verification_uri |-> << "verification_uri", 0 >>,
     expires_in |-> << "expires_in", 900 >>,
     interval |-> << "interval", 5 >>,
     message |-> << "message", n >>]

\* a result that hands the stored flow back with its id
StartResultWithFlow(flow_id, flow) ==
    [k \in {"flow_id"} \cup DOMAIN flow |->
        IF k = "flow_id" THEN << "flow_id", flow_id >> ELSE flow[k]]

\* lines 202-209: the dict start_device_login returns
StartResult(flow_id, flow) ==
    [flow_id |-> << "flow_id", flow_id >>,
     user_code |-> flow.user_code,
     verification_uri |-> flow.verification_uri,
     expires_in |-> flow.expires_in,
     interval |-> flow.interval,
     message |-> flow.message]

\* what acquire_token_by_device_flow returns besides the fields that name
\* the user, when the exchange succeeds
TokenResponse ==
    [access_token |-> << "access_token", 1 >>,
     refresh_token |-> << "refresh_token", 1 >>,
     id_token |-> << "id_token", 1 >>,
     expires_in |-> << "expires_in", 3600 >>,
     scope |-> << "scope", 0 >>,
     token_type |-> << "token_type", 0 >>]

\* lines 255-261: the dict complete_device_login returns
CompleteResult(summary, response) ==
    [success |-> << "success", 1 >>,
     account |-> << "account", IF summary = NoSummary THEN 0 ELSE 1 >>,
     expires_in |-> response.expires_in,
     scope |-> response.scope,
     token_type |-> response.token_type]

\* an assignment that replaces the whole map
PutFlowAlone(flows, flow_id, flow) == {[flow_id |-> flow_id, flow |-> flow]}

\* pending[flow_id] = flow
PutFlow(flows, flow_id, flow) ==
    {e \in flows : e.flow_id # flow_id} \cup {[flow_id |-> flow_id, flow |-> flow]}

\* lines 195-209
SdInitiate(t) ==
    /\ pc[t] = "sd_initiate"
    /\ \E has_user_code \in BOOLEAN :
        IF has_user_code
          THEN /\ nextFlow < MaxFlows
               /\ nextFlow' = nextFlow + 1
               /\ pending' = PutFlow(pending, nextFlow + 1, DeviceFlow(nextFlow + 1))
               /\ Return(t, [NoResult EXCEPT !.kind = "ok", !.flow_id = nextFlow + 1,
                                            !.provider = "user_code",
                                            !.payload = StartResult(nextFlow + 1,
                                                            DeviceFlow(nextFlow + 1))])
          ELSE /\ UNCHANGED << nextFlow, pending >>
               /\ Return(t, RaiseAfter(AuthenticationError, "no_user_code"))
    /\ Frame
    /\ UNCHANGED << cacheVars, active, passed >>

(***************************************************************************)
(* complete_device_login                                                   *)
(***************************************************************************)
\* a lookup that leaves the flow in the map
PopFlowKeeps(flows, flow_id) == flows

\* a lookup that empties the map
PopFlowAll(flows, flow_id) == {}

\* pending.pop(flow_id, None): what is left
PopFlow(flows, flow_id) == {e \in flows : e.flow_id # flow_id}

\* a lookup that only asks whether any flow is pending
HasFlowAny(flows, flow_id) == flows # {}

\* pending.pop(flow_id, None): whether a flow came out
HasFlow(flows, flow_id) == \E e \in flows : e.flow_id = flow_id

\* a choice that looks at the email claim first
PreferredUsernameEmailFirst(result) ==
    IF result.email # None THEN result.email
    ELSE IF result.account_username # None THEN result.account_username
    ELSE result.preferred_username

\* lines 229-235: the username taken from the exchange's result
PreferredUsername(result) ==
    IF result.account_username # None THEN result.account_username
    ELSE IF result.preferred_username # None THEN result.preferred_username
    ELSE result.email

\* a mail alias of the user, which is the username of no account
Alias == "alias"

\* the results of a successful exchange for identity who: each field absent
\* or present, the claims naming the account's username or the alias
ExchangeResults(who) ==
    [account_username : {None, who.username},
     preferred_username : {None, who.username, Alias},
     email : {None, who.username, Alias}]

\* the results that name the user in the account record or not at all
AccountRecordOnly(who) ==
    {NoExchange, [NoExchange EXCEPT !.account_username = who.username]}

\* per identity, every result of a successful exchange
AnyResult == [who \in Identities |-> ExchangeResults(who)]

\* per identity, the results that name it in the account record or not at all
AccountRecordResult == [who \in Identities |-> AccountRecordOnly(who)]

\* the token cache after msal stored the tokens of who
AddAccount(accts, who) ==
    IF who.home_account_id \in HidsOf(accts) THEN accts ELSE Append(accts, who)

\* lines 214-218: the lookup removes the flow
CdPop(t) ==
    /\ pc[t] = "cd_pop"
    /\ LET f == arg[t].flow_id
       IN  IF HasFlow(pending, f)
             THEN /\ pending' = PopFlow(pending, f)
                  /\ passed' = [passed EXCEPT ![f] = passed[f] + 1]
                  /\ Goto(t, "cd_exchange", local[t])
             ELSE /\ pending' = PopFlow(pending, f)
                  /\ passed' = passed
                  /\ Return(t, Raise(AuthenticationFlowNotFound))
    /\ Frame
    /\ UNCHANGED << cacheVars, active, nextFlow >>

\* lines 220-225: the exchange with the provider (it blocks up to timeout):
\* a token for the identity that signed in; no result; an error result
\* (denied, expired, still pending when the timeout elapsed); or it raises.
\* results[who] are the results a successful exchange for who can have.
CdExchange(t, results) ==
    /\ pc[t] = "cd_exchange"
    /\ \/ \E who \in Identities : \E result \in results[who] :
            /\ accounts' = AddAccount(accounts, who)
            /\ rev' = rev + 1
            /\ dirty' = TRUE
            /\ Goto(t, "sc_test", [local[t] EXCEPT !.pref = PreferredUsername(result),
                                                   !.outcome = "token",
                                                   !.result = result])
       \/ \E failure \in {"none", "error"} :
            /\ Return(t, RaiseAfter(AuthenticationError, failure))
            /\ UNCHANGED << accounts, rev, dirty >>
       \/ /\ Return(t, RaiseAfter(TransportError, "raise"))
          /\ UNCHANGED << accounts, rev, dirty >>
    /\ Frame
    /\ UNCHANGED << file, lockHolder, active, pending, nextFlow, passed >>

\* lines 238-242
CdMatch(t) ==
    /\ pc[t] = "cd_match"
    /\ LET matching == GetAccountsByUsername(local[t].pref)
       IN  IF matching # << >>
             THEN Goto(t, "cd_write", [local[t] EXCEPT !.account = matching[1]])
             ELSE Goto(t, "cd_all", local[t])
    /\ Frame
    /\ UNCHANGED << shared, passed >>

\* lines 243-246, and 249-261 when there is no account
CdAll(t) ==
    /\ pc[t] = "cd_all"
    /\ LET accts == GetAccounts
       IN  IF accts # << >>
             THEN Goto(t, "cd_write", [local[t] EXCEPT !.account = LastOf(accts)])
             ELSE Return(t, [NoResult EXCEPT !.kind = "ok", !.provider = "token",
                                             !.reported = local[t].pref,
                                             !.saved = local[t].saved,
                                             !.result = local[t].result,
                                             !.payload = CompleteResult(NoSummary, TokenResponse)])
    /\ Frame
    /\ UNCHANGED << shared, passed >>

\* line 242 or 247, and 249-261
CdWrite(t) ==
    /\ pc[t] = "cd_write"
    /\ active' = local[t].account.home_account_id
    /\ LET summary == MarkActive(SerializeAccount(local[t].account, active'))
       IN  Return(t, [NoResult EXCEPT !.kind = "ok", !.provider = "token",
                        !.reported = local[t].pref,
                        !.saved = local[t].saved,
                        !.result = local[t].result,
                        !.account = summary,
                        !.payload = CompleteResult(summary, TokenResponse)])
    /\ Frame
    /\ UNCHANGED << cacheVars, pending, nextFlow, passed >>

(***************************************************************************)
(* GraphClient (graph.py): every operation goes through _request           *)
(***************************************************************************)
\* what requests.request and requests.get can do: a 2xx response, another
\* status, or RequestException
HttpOutcomes == {"2xx", "status", "RequestException"}

\* _resolve_drive_id (graph.py lines 118-124): the drive an operation works on
ResolveDriveId(drive_id) == IF drive_id # None THEN drive_id ELSE active_drive_id

\* get_item_content, line 229
GiDrive(t) ==
    /\ pc[t] = "gi_drive"
    /\ IF ResolveDriveId(arg[t].drive_id) = None
         THEN Return(t, Raise(GraphAPIError))
         ELSE Goto(t, "rq_begin", local[t])
    /\ Frame
    /\ UNCHANGED << shared, passed >>

\* _request, lines 77-78: it calls _authorization_headers, which calls
\* acquire_token_silent
RqBegin(t) ==
    /\ pc[t] = "rq_begin"
    /\ Goto(t, "ga_check", [Keep(t) EXCEPT !.req = local[t].req + 1])
    /\ Frame
    /\ UNCHANGED << shared, passed >>

\* a test that takes every response for a success
IsSuccessAny(http) == TRUE

\* _request, lines 93 and 102: 200 <= status_code < 300 (RequestException
\* never gets there)
IsSuccess(http) == http = "2xx"

\* _request, lines 82-116: the HTTP request goes out with the headers; then
\* get_drive returns the payload, set_active_drive goes on to its write, and
\* get_item_content (lines 230-235) asks again when the item has no download
\* URL, once
RqSend(t) ==
    /\ pc[t] = "rq_send"
    /\ \E http \in HttpOutcomes :
        LET l == [local[t] EXCEPT !.sent = Append(local[t].sent, local[t].token),
                                  !.http = http]
            done(r) == Return(t, [r EXCEPT !.sent = l.sent, !.acquired = l.acquired,
                                           !.http = http])
        IN  IF ~IsSuccess(http)
              THEN done(Raise(GraphAPIError))
            ELSE IF op[t] = "get_drive"
              THEN done([NoResult EXCEPT !.kind = "ok"])
            ELSE IF op[t] = "set_active_drive"
              THEN Goto(t, "dr_write", l)
            ELSE \E has_url \in BOOLEAN :
                    IF has_url THEN Goto(t, "gi_download", l)
                    ELSE IF l.req = 1 THEN Goto(t, "rq_begin", l)
                    ELSE done(Raise(GraphAPIError))
    /\ Frame
    /\ UNCHANGED << shared, passed >>

\* set_active_drive, lines 153-154: the write follows the lookup
DrWrite(t) ==
    /\ pc[t] = "dr_write"
    /\ active_drive_id' = arg[t].drive_id
    /\ Return(t, [NoResult EXCEPT !.kind = "ok",
                                  !.sent = local[t].sent,
                                  !.acquired = local[t].acquired,
                                  !.http = local[t].http])
    /\ UNCHANGED << op, arg, ncalls, calls, activeAtStart, evicted, born >>
    /\ UNCHANGED << shared, passed >>

\* get_item_content, lines 237-245: the content is fetched from the download
\* URL, with no Authorization header
GiDownload(t) ==
    /\ pc[t] = "gi_download"
    /\ \E http \in HttpOutcomes :
        Return(t, [NoResult EXCEPT !.kind = IF IsSuccess(http) THEN "ok" ELSE GraphAPIError,
                                   !.sent = local[t].sent,
                                   !.acquired = local[t].acquired,
                                   !.download = TRUE])
    /\ Frame
    /\ UNCHANGED << shared, passed >>

(***************************************************************************)
(* The store outside the manager's control                                 *)
(***************************************************************************)
\* get_accounts() stops returning an account (line 121-124: "the previously
\* active identifier no longer appears in the store")
Evict ==
    /\ ncalls < MaxCalls
    /\ ncalls' = ncalls + 1
    /\ \E i \in DOMAIN accounts :
        accounts' = SubSeq(accounts, 1, i - 1) \o SubSeq(accounts, i + 1, Len(accounts))
    /\ dirty' = TRUE
    /\ evicted' = TRUE
    /\ UNCHANGED << rev, file, lockHolder, active, pending, nextFlow,
                    pc, op, arg, local, res,
                    calls, activeAtStart, passed, born, active_drive_id >>

\* a pending set that outlives the process
PendingSurvives(previous) == previous

\* line 55: the pending flows of a new manager, whatever the previous
\* process held
PendingAtStart(previous) == {}

\* The server process ends and a new one starts: GraphAuthManager.__init__
\* (lines 38-71) runs on what is at the cache path then, which is the file
\* the previous process left or something else put there since.
Restart ==
    /\ Quiet
    /\ ncalls < MaxCalls
    /\ ncalls' = ncalls + 1
    /\ \E f \in {file} \cup StartupFiles :
        LET loaded == LoadCache(f)
        IN  /\ file' = f
            /\ accounts' = loaded.accounts
            /\ rev' = loaded.rev
            /\ res' = [u \in Threads |->
                        IF u = "t1"
                          THEN [NoResult EXCEPT !.kind =
                                    IF loaded.raised = None THEN "ok" ELSE loaded.raised]
                          ELSE NoResult]
    /\ dirty' = FALSE
    /\ lockHolder' = None
    /\ active' = None
    /\ pending' = PendingAtStart(pending)
    /\ born' = nextFlow
    /\ active_drive_id' = None
    /\ op' = [u \in Threads |-> IF u = "t1" THEN "__init__" ELSE "none"]
    /\ arg' = [u \in Threads |-> NoArg]
    /\ calls' = [u \in Threads |-> IF u = "t1" THEN 1 ELSE 0]
    /\ activeAtStart' = active
    /\ evicted' = FALSE
    /\ UNCHANGED << nextFlow, pc, local, passed >>

\* the steps of _save_cache, with the outcomes io of its file operations
SaveSteps(t, io) == ScTest(t) \/ ScLock(t, io) \/ ScWrite(t, io)

\* the steps of set_active_account
SelectSteps(t) == SaAccounts(t) \/ SaWrite(t)

\* the steps of get_active_account up to the end of its loop
ActiveSteps(t) == GaCheck(t) \/ GaAccounts(t) \/ GaLoop(t)

\* the steps of list_accounts
ListSteps(t) == LaAccounts(t) \/ LaCheck(t) \/ LaWrite(t) \/ LaLoop(t)

\* the steps of acquire_token_silent after get_active_account
TokenSteps(t) == AtAccounts(t) \/ AtWrite(t) \/ AtProvider(t)

\* the steps of start_device_login and complete_device_login, with the
\* results a successful exchange can have
LoginSteps(t, results) ==
    \/ SdInitiate(t) \/ CdPop(t) \/ CdExchange(t, results)
    \/ CdMatch(t) \/ CdAll(t) \/ CdWrite(t)

\* the steps of the GraphClient operations outside acquire_token_silent
GraphSteps(t) == GiDrive(t) \/ RqBegin(t) \/ RqSend(t) \/ GiDownload(t)

\* the steps of the methods outside _save_cache
CallSteps(t) ==
    \/ SelectSteps(t)
    \/ ActiveSteps(t) \/ GaReset(t) \/ GsSerialize(t)
    \/ ListSteps(t)
    \/ TokenSteps(t)
    \/ LoginSteps(t, AnyResult)

Step(t) == CallSteps(t) \/ SaveSteps(t, IoOutcomes)

\* every method of the manager is called; calls run one at a time; the
\* process restarts
Next ==
    \/ \E t \in Threads : Call(t, {})
    \/ \E t \in Threads : Step(t)
    \/ Evict
    \/ Restart

Spec == Init /\ [][Next]_vars

\* the calls that read or write the active pointer, overlapping
PointerOps == {"set_active_account", "get_active_account_summary"}

NextPointer ==
    \/ \E t \in Threads : CallOf(t, PointerOps, PointerOps)
    \/ \E t \in Threads : SelectSteps(t)
    \/ \E t \in Threads : ActiveSteps(t) \/ GaReset(t) \/ GsSerialize(t)
    \/ Evict

SpecPointer == Init /\ [][NextPointer]_vars

\* sign-ins, with complete_device_login calls overlapping, and list_accounts
LoginOps == {"start_device_login", "complete_device_login", "list_accounts"}
FlowOps == {"complete_device_login"}

NextFlow ==
    \/ \E t \in Threads : CallOf(t, LoginOps, FlowOps)
    \/ \E t \in Threads : LoginSteps(t, AccountRecordResult)
    \/ \E t \in Threads : ListSteps(t)
    \/ \E t \in Threads : SaveSteps(t, IoOutcomes)
    \/ Evict

SpecFlow == Init /\ [][NextFlow]_vars

\* sign-ins and silent acquisitions, the calls that save the cache
\* overlapping; the file operations succeed and the store changes only
\* through the manager
SavingOps == {"start_device_login", "complete_device_login", "acquire_token_silent"}
SaveOps == {"acquire_token_silent", "complete_device_login"}

NextSave ==
    \/ \E t \in Threads : CallOf(t, SavingOps, SaveOps)
    \/ \E t \in Threads : LoginSteps(t, AccountRecordResult)
    \/ \E t \in Threads : ActiveSteps(t)
    \/ \E t \in Threads : TokenSteps(t)
    \/ \E t \in Threads : SaveSteps(t, {"ok"})

SpecSave == Init /\ [][NextSave]_vars

\* list_accounts and set_active_account, overlapping
ListingOps == {"list_accounts", "set_active_account"}

NextList ==
    \/ \E t \in Threads : CallOf(t, ListingOps, ListingOps)
    \/ \E t \in Threads : SelectSteps(t)
    \/ \E t \in Threads : ListSteps(t)
    \/ Evict

SpecList == Init /\ [][NextList]_vars

\* sign-ins, with complete_device_login overlapping the two calls that
\* auto-select a sole account; the file operations succeed and the store
\* changes only through the manager
PromotingOps == {"start_device_login", "complete_device_login",
                 "list_accounts", "acquire_token_silent"}
PromoteOps == {"complete_device_login", "list_accounts", "acquire_token_silent"}

NextPromote ==
    \/ \E t \in Threads : CallOf(t, PromotingOps, PromoteOps)
    \/ \E t \in Threads : LoginSteps(t, AccountRecordResult)
    \/ \E t \in Threads : ListSteps(t)
    \/ \E t \in Threads : ActiveSteps(t)
    \/ \E t \in Threads : TokenSteps(t)
    \/ \E t \in Threads : SaveSteps(t, {"ok"})

SpecPromote == Init /\ [][NextPromote]_vars

\* the GraphClient operations, one at a time
NextDrive ==
    \/ \E t \in Threads : CallOf(t, DriveOps, {})
    \/ \E t \in Threads : GraphSteps(t) \/ DrWrite(t)
    \/ \E t \in Threads : ActiveSteps(t) \/ GaReset(t)
    \/ \E t \in Threads : TokenSteps(t)
    \/ \E t \in Threads : SaveSteps(t, IoOutcomes)
    \/ Evict

SpecDrive == Init /\ [][NextDrive]_vars

(***************************************************************************)
(* Properties                                                              *)
(***************************************************************************)
\* thread t's last call has returned or raised
Returned(t) == pc[t] = "idle" /\ res[t].kind # "none"

\* thread t's call began with no call in flight and no call began since
Sole(t) == calls[t] = 1 /\ \A u \in Threads \ {t} : calls[u] = 0

\* two calls overlapped, one per thread, and no other call began since
Pair == \A t \in Threads : calls[t] = 1

\* flow_id is among the pending flows
IsPending(flow_id) == \E e \in pending : e.flow_id = flow_id

\* thread t is in complete_device_login, past the lookup of the flow
PastLookup(t) ==
    op[t] = "complete_device_login" /\ pc[t] \notin {"idle", "cd_pop"}

\* what list_accounts returns when it runs alone (lines 100-116)
ListAccountsAlone(accts, activeNow) ==
    IF AutoSelect(activeNow, accts)
      THEN Summaries(accts, << TRUE >>)
      ELSE Summaries(accts, [i \in DOMAIN accts |-> accts[i].home_account_id = activeNow])

\* the accounts a list of summaries flags active
Flagged(list) == {list[i].home_account_id : i \in {j \in DOMAIN list : list[j].is_active}}

\* C1: a flow id is accepted by complete_device_login at most once: however
\* the calls naming it interleave, at most one gets past the pending-flow
\* lookup, and of two calls naming the same id at least one fails with
\* AuthenticationFlowNotFound.
C1_FlowAcceptedOnce ==
    /\ \A f \in FlowIds : passed[f] <= 1
    /\ \A t, u \in Threads :
        (t # u /\ op[t] = "complete_device_login" /\ op[u] = "complete_device_login"
             /\ arg[t].flow_id = arg[u].flow_id)
        => /\ ~(PastLookup(t) /\ PastLookup(u))
           /\ (Returned(t) /\ Returned(u))
                => (res[t].kind = AuthenticationFlowNotFound
                    \/ res[u].kind = AuthenticationFlowNotFound)

\* two overlapping calls named the same issued flow: one was accepted, the
\* other got AuthenticationFlowNotFound
C1_Witness ==
    /\ Pair
    /\ \A t \in Threads : op[t] = "complete_device_login" /\ Returned(t)
    /\ arg["t1"].flow_id = arg["t2"].flow_id
    /\ arg["t1"].flow_id \in FlowIds
    /\ \E t \in Threads : res[t].kind # AuthenticationFlowNotFound
    /\ \E t \in Threads : res[t].kind = AuthenticationFlowNotFound

\* C2: the lookup step of complete_device_login, taken with a flow id that is
\* not pending, ends the call with AuthenticationFlowNotFound, asks the
\* provider nothing and leaves the pending set, the active pointer and the
\* cache unchanged.
C2_UnknownFlowRejected ==
    [][\A t \in Threads :
        (pc[t] = "cd_pop" /\ pc'[t] # "cd_pop" /\ ~IsPending(arg[t].flow_id))
        => /\ pc'[t] = "idle"
           /\ res'[t].kind = AuthenticationFlowNotFound
           /\ res'[t].provider = None
           /\ passed' = passed
           /\ pending' = pending
           /\ active' = active
           /\ << accounts, rev, dirty, file >>' = << accounts, rev, dirty, file >>]_vars

\* a call naming an already consumed flow, while another flow was not at
\* stake, was rejected
C2_Witness ==
    \E t \in Threads :
        /\ Returned(t)
        /\ op[t] = "complete_device_login"
        /\ arg[t].flow_id \in FlowIds
        /\ passed[arg[t].flow_id] = 1
        /\ res[t].kind = AuthenticationFlowNotFound

\* C3: the flow is out of the pending set from the lookup on; when the
\* exchange fails the call raises AuthenticationError, the flow id is not
\* pending afterwards, and (the call running alone) the active pointer is what
\* it was before the call.
C3_FailedExchangeConsumesFlow ==
    \A t \in Threads :
        op[t] = "complete_device_login" =>
            /\ PastLookup(t) => ~IsPending(arg[t].flow_id)
            /\ (Returned(t) /\ res[t].provider \in {"none", "error"})
                => /\ res[t].kind = AuthenticationError
                   /\ ~IsPending(arg[t].flow_id)
                   /\ Sole(t) => active = activeAtStart

\* a failed exchange, with an account active before the call
C3_Witness ==
    \E t \in Threads :
        /\ Sole(t) /\ Returned(t)
        /\ op[t] = "complete_device_login"
        /\ res[t].provider = "error"
        /\ res[t].kind = AuthenticationError
        /\ activeAtStart # None
        /\ active = activeAtStart

\* C4: after a complete_device_login that ran alone and succeeded with the
\* provider reporting username u, the active pointer names a stored account
\* whose username is u, the returned summary has username u and is active,
\* and list_accounts would flag exactly the active account.
C4_LoginActivatesReportedAccount ==
    \A t \in Threads :
        (Sole(t) /\ ~evicted /\ Returned(t) /\ op[t] = "complete_device_login"
            /\ res[t].kind = "ok" /\ res[t].reported # None)
        => /\ \E i \in DOMAIN accounts :
                /\ accounts[i].home_account_id = active
                /\ accounts[i].username = res[t].reported
           /\ res[t].account.username = res[t].reported
           /\ res[t].account.is_active
           /\ Flagged(ListAccountsAlone(accounts, active)) = {active}

\* the selectors a match no account of the store
NoStoredMatch(a) ==
    \/ a.home_account_id = None /\ a.username = None
    \/ \A i \in DOMAIN accounts :
        /\ ~(a.home_account_id # None /\ accounts[i].home_account_id = a.home_account_id)
        /\ ~(a.username # None /\ Lower(accounts[i].username) = Lower(a.username))

\* C5: a set_active_account call (running alone, the store unchanged) given
\* neither selector, or selectors that match no stored account, raises
\* AuthenticationError and leaves the active pointer as it was.
C5_FailedSelectionKeepsPointer ==
    \A t \in Threads :
        (Sole(t) /\ ~evicted /\ Returned(t) /\ op[t] = "set_active_account"
            /\ NoStoredMatch(arg[t]))
        => /\ res[t].kind = AuthenticationError
           /\ active = activeAtStart

\* a failed selection while an account was active
C5_Witness ==
    \E t \in Threads :
        /\ Sole(t) /\ ~evicted /\ Returned(t)
        /\ op[t] = "set_active_account"
        /\ arg[t].home_account_id # None
        /\ NoStoredMatch(arg[t])
        /\ res[t].kind = AuthenticationError
        /\ activeAtStart # None
        /\ active = activeAtStart

\* C6: with exactly one account in the store, a list_accounts or
\* acquire_token_silent call (running alone, the store unchanged) that starts
\* with a null pointer ends with the pointer on that account; one that starts
\* with the pointer on that account never writes the pointer and reports the
\* account active.
C6_SoleAccountAutoActivated ==
    \A t \in Threads :
        (Sole(t) /\ ~evicted /\ op[t] \in {"list_accounts", "acquire_token_silent"}
            /\ Len(accounts) = 1)
        => LET only == accounts[1].home_account_id
           IN  /\ (activeAtStart = None /\ Returned(t))
                    => /\ active = only
                       /\ op[t] = "list_accounts"
                            => Flagged(res[t].accounts) = {only}
               /\ activeAtStart = only
                    => /\ pc[t] \notin {"la_write", "at_write", "ga_reset"}
                       /\ active = only
                       /\ (Returned(t) /\ op[t] = "list_accounts")
                            => Flagged(res[t].accounts) = {only}
                       /\ pc[t] = "at_provider" => local[t].account.home_account_id = only

\* a later list_accounts call reports the account active
C6_Witness ==
    \E t \in Threads :
        /\ Sole(t) /\ ~evicted /\ Returned(t)
        /\ op[t] = "list_accounts"
        /\ Len(accounts) = 1
        /\ activeAtStart = accounts[1].home_account_id
        /\ active = activeAtStart
        /\ Flagged(res[t].accounts) = {active}

\* no account is resolvable: the pointer is null or names no stored account,
\* and the store does not hold exactly one account
Unresolvable ==
    /\ activeAtStart = None \/ activeAtStart \notin HidsOf(accounts)
    /\ Len(accounts) # 1

\* C7 as stated: with no account resolvable, acquire_token_silent (running
\* alone, the store unchanged) raises AuthenticationError without asking the
\* provider and without changing the active pointer.
C7_Original ==
    \A t \in Threads :
        (Sole(t) /\ ~evicted /\ Returned(t) /\ op[t] = "acquire_token_silent"
            /\ Unresolvable)
        => /\ res[t].kind = AuthenticationError
           /\ res[t].provider = None
           /\ active = activeAtStart

\* C7 (amended): with no account resolvable, acquire_token_silent (running
\* alone, the store unchanged) raises AuthenticationError without asking the
\* provider and leaves the pointer null: unchanged when it was null, reset to
\* null when it named an account no longer in the store.
C7_UnresolvableFailsWithoutProvider ==
    \A t \in Threads :
        (Sole(t) /\ ~evicted /\ op[t] = "acquire_token_silent" /\ Unresolvable)
        => /\ pc[t] \notin {"at_write", "at_provider", "sc_test", "sc_lock", "sc_write"}
           /\ Returned(t)
                => /\ res[t].kind = AuthenticationError
                   /\ res[t].provider = None
                   /\ active = None
           /\ activeAtStart = None => active = None

\* the call failed with the pointer naming an account that left the store
C7_Witness ==
    \E t \in Threads :
        /\ Sole(t) /\ ~evicted /\ Returned(t)
        /\ op[t] = "acquire_token_silent"
        /\ Unresolvable
        /\ activeAtStart # None
        /\ res[t].kind = AuthenticationError
        /\ active = None

\* C8: with an account of the store active, acquire_token_silent (running
\* alone, the store unchanged) resolves no other account: it asks the
\* provider for a token for the active account, and when the provider returns
\* one it returns that token and the pointer still names the account.
C8_SilentUsesActiveAccount ==
    \A t \in Threads :
        (Sole(t) /\ ~evicted /\ op[t] = "acquire_token_silent"
            /\ activeAtStart \in HidsOf(accounts))
        => /\ pc[t] \notin {"at_accounts", "at_write", "ga_reset"}
           /\ active = activeAtStart
           /\ pc[t] = "at_provider" => local[t].account.home_account_id = activeAtStart
           /\ (Returned(t) /\ res[t].provider \in {"cached", "refreshed"})
                => /\ res[t].kind = "ok"
                   /\ res[t].token = activeAtStart
           /\ (Returned(t) /\ res[t].kind = AuthenticationError)
                => res[t].provider \in {"none", "error"}

\* the provider returned a token for the active account and the call returned it
C8_Witness ==
    \E t \in Threads :
        /\ Sole(t) /\ ~evicted /\ Returned(t)
        /\ op[t] = "acquire_token_silent"
        /\ activeAtStart \in HidsOf(accounts)
        /\ res[t].kind = "ok"
        /\ res[t].provider = "refreshed"
        /\ res[t].token = active

\* C9: two overlapping set_active_account calls that both succeed, on two
\* different accounts, leave the pointer on one of the two accounts.
C9_ConcurrentSelectionsLeaveOne ==
    (/\ Pair
     /\ \A t \in Threads :
            op[t] = "set_active_account" /\ Returned(t) /\ res[t].kind = "ok"
     /\ res["t1"].account.home_account_id # res["t2"].account.home_account_id)
    => active \in {res["t1"].account.home_account_id, res["t2"].account.home_account_id}

\* both calls succeeded, and the pointer is on the account of the call that
\* began first
C9_Witness ==
    /\ Pair
    /\ \A t \in Threads :
            op[t] = "set_active_account" /\ Returned(t) /\ res[t].kind = "ok"
    /\ res["t1"].account.home_account_id # res["t2"].account.home_account_id
    /\ active = res["t1"].account.home_account_id

\* C10: when get_active_account (here through get_active_account_summary)
\* overlaps a set_active_account call that succeeds, and no account leaves the
\* store, the pointer names the account set_active_account chose once both
\* have returned.
C10_ReadDoesNotUndoSelection ==
    \A g, w \in Threads :
        (/\ Pair /\ ~evicted
         /\ op[g] = "get_active_account_summary" /\ Returned(g)
         /\ op[w] = "set_active_account" /\ Returned(w) /\ res[w].kind = "ok")
        => active = res[w].account.home_account_id

\* C11: with the file operations succeeding and the store changed only by
\* the manager, however acquire_token_silent and complete_device_login calls
\* interleave: at most one thread is writing the file, and it holds the lock;
\* and once all calls have returned the changed flag is reset and the file
\* holds the serialization of the in-memory token cache.
C11_SavesNeitherOverlapNorLose ==
    /\ \A t, u \in Threads : (pc[t] = "sc_write" /\ pc[u] = "sc_write") => t = u
    /\ \A t \in Threads : pc[t] = "sc_write" => lockHolder = t
    /\ Quiet =>
        /\ ~dirty
        /\ lockHolder = None
        /\ \/ file = Serialize(accounts, rev)
           \/ rev = 0 /\ accounts = << >> /\ file = FileMissing

\* a sign-in and a silent refresh overlapped, both changed the cache, both
\* wrote the file, and the file holds the final cache
C11_Witness ==
    /\ Pair /\ Quiet
    /\ \E t, u \in Threads :
        /\ op[t] = "complete_device_login" /\ res[t].kind = "ok" /\ res[t].saved = "ok"
        /\ op[u] = "acquire_token_silent" /\ res[u].provider = "refreshed"
        /\ res[u].saved = "ok"
    /\ rev = 2
    /\ file = Serialize(accounts, rev)

\* the bearer tokens of the HTTP requests _request has sent in thread t's
\* operation, and the tokens acquire_token_silent has returned to it
SentBy(t) == IF pc[t] = "idle" THEN res[t].sent ELSE local[t].sent
AcquiredBy(t) == IF pc[t] = "idle" THEN res[t].acquired ELSE local[t].acquired

C13_StalePointerCleared ==
    \A t \in Threads :
        (Sole(t) /\ ~evicted /\ op[t] = "get_active_account_summary")
        => /\ (activeAtStart # None /\ activeAtStart \notin HidsOf(accounts) /\ Returned(t))
                => /\ res[t].account = NoSummary
                   /\ active = None
           /\ activeAtStart \in HidsOf(accounts)
                => /\ pc[t] # "ga_reset"
                   /\ active = activeAtStart
                   /\ Returned(t)
                        => /\ res[t].account.home_account_id = activeAtStart
                           /\ res[t].account.is_active

\* the pointer named an account that had left a store that still holds
\* another account; the call returned no account and cleared the pointer
C13_Witness ==
    \E t \in Threads :
        /\ Sole(t) /\ ~evicted /\ Returned(t)
        /\ op[t] = "get_active_account_summary"
        /\ activeAtStart # None
        /\ activeAtStart \notin HidsOf(accounts)
        /\ accounts # << >>
        /\ res[t].account = NoSummary
        /\ active = None

\* C14: with a null pointer and a store of zero accounts or of two or more,
\* a list_accounts call (running alone, the store unchanged) never writes the
\* pointer, leaves it null, and returns one summary per account, none of
\* them active; so the same holds of the next call.
C14_NoAutoSelectionWithoutSoleAccount ==
    \A t \in Threads :
        (Sole(t) /\ ~evicted /\ op[t] = "list_accounts"
            /\ activeAtStart = None /\ Len(accounts) # 1)
        => /\ pc[t] # "la_write"
           /\ active = None
           /\ Returned(t)
                => /\ Len(res[t].accounts) = Len(accounts)
                   /\ Flagged(res[t].accounts) = {}

\* two accounts were listed, none active
C14_Witness ==
    \E t \in Threads :
        /\ Sole(t) /\ ~evicted /\ Returned(t)
        /\ op[t] = "list_accounts"
        /\ activeAtStart = None
        /\ Len(res[t].accounts) = 2
        /\ Flagged(res[t].accounts) = {}
        /\ active = None

\* the positions of a list of summaries that are flagged active
FlaggedAt(list) == {i \in DOMAIN list : list[i].is_active}

\* C15: every list that list_accounts returns has at most one summary with
\* is_active true, and (the call having run alone, the store unchanged) that
\* summary's home_account_id is the active pointer.
C15_AtMostOneActive ==
    \A t \in Threads :
        (op[t] = "list_accounts" /\ Returned(t))
        => /\ Cardinality(FlaggedAt(res[t].accounts)) <= 1
           /\ (Sole(t) /\ ~evicted) => Flagged(res[t].accounts) \subseteq {active}

\* C16: a call in which mkdir or write_text failed inside _save_cache goes on
\* as after a write: it is never ended by the failure; acquire_token_silent
\* returns the token of the active account; complete_device_login returns
\* success with the account it made active, which is in the store.
C16_WriteFailureSwallowed ==
    \A t \in Threads :
        /\ (pc[t] # "idle" /\ local[t].saved = "OSError")
            => /\ op[t] = "complete_device_login"
               /\ pc[t] \in {"cd_match", "cd_all", "cd_write"}
        /\ (Returned(t) /\ res[t].saved = "OSError")
            => /\ res[t].kind = "ok"
               /\ res[t].provider \in {"cached", "refreshed", "token"}
               /\ (Sole(t) /\ ~evicted /\ op[t] = "acquire_token_silent")
                    => /\ res[t].token = active
                       /\ active \in HidsOf(accounts)
               /\ (Sole(t) /\ ~evicted /\ op[t] = "complete_device_login")
                    => /\ accounts # << >>
                       /\ res[t].account.is_active
                       /\ res[t].account.home_account_id = active
                       /\ active \in HidsOf(accounts)

\* a sign-in into an empty store whose write failed: it returned success,
\* the account is in the store and active, and the file is still missing
C16_Witness ==
    \E t \in Threads :
        /\ Sole(t) /\ ~evicted /\ Returned(t)
        /\ op[t] = "complete_device_login"
        /\ res[t].saved = "OSError"
        /\ res[t].kind = "ok"
        /\ Len(accounts) = 1
        /\ active = accounts[1].home_account_id
        /\ file = FileMissing

\* the manager was constructed and no method has been called since
JustConstructed == op["t1"] = "__init__" /\ op["t2"] = "none"

\* C17: whatever is at the cache path (missing, empty, or unreadable for any
\* reason), construction completes, and the manager starts with an empty
\* token cache, zero accounts and a null active pointer.
C17_ConstructionNeverFails ==
    JustConstructed =>
        /\ res["t1"].kind = "ok"
        /\ file \in StartupFiles
            => /\ accounts = << >>
               /\ rev = 0
               /\ active = None

\* C18: after a complete_device_login that succeeded and whose cache write
\* succeeded, the cache file holds the serialization of the token cache and
\* loading it gives the same set of accounts; a manager constructed from a
\* file that a manager wrote enumerates the accounts written (as long as the
\* token cache has dropped none since).
C18_PersistedCredentialsRoundTrip ==
    /\ \A t \in Threads :
        (/\ Sole(t) /\ ~evicted /\ Returned(t)
         /\ op[t] = "complete_device_login"
         /\ res[t].kind = "ok"
         /\ res[t].saved = "ok")
            => /\ file = Serialize(accounts, rev)
               /\ LoadCache(file).raised = None
               /\ HidsOf(LoadCache(file).accounts) = HidsOf(accounts)
    /\ (JustConstructed /\ ~evicted /\ file \notin StartupFiles)
            => /\ res["t1"].kind = "ok"
               /\ HidsOf(accounts) = HidsOf(file.json[1])
               /\ GetAccounts = file.json[1]

\* a sign-in was exchanged and written, the process restarted, and the new
\* manager came up from that file with the account that signed in
C18_Witness ==
    /\ JustConstructed /\ ~evicted
    /\ file \notin StartupFiles
    /\ file.json[2] > 0
    /\ res["t1"].kind = "ok"
    /\ accounts # << >>
    /\ accounts = file.json[1]
    /\ \E f \in FlowIds : passed[f] > 0

\* the pointer leaves null while at least two accounts are cached only in a
\* call that selects an account
SelectedOnlyByChoice ==
    (active = None /\ Len(accounts) >= 2 /\ active' # None)
        => \E t \in Threads :
            /\ pc[t] # "idle"
            /\ op[t] \in {"set_active_account", "complete_device_login"}

\* C19: a manager constructed after a restart starts with no pending flow
\* and a null active pointer whatever the previous process held; every flow
\* id issued before the restart is rejected with AuthenticationFlowNotFound;
\* with two or more persisted accounts no account becomes active until a
\* call selects one.
C19_SessionStateEndsAtRestart ==
    /\ [](/\ (JustConstructed /\ res["t1"].kind = "ok")
                => (pending = {} /\ active = None)
          /\ \A e \in pending : e.flow_id > born
          /\ \A t \in Threads :
                (/\ Returned(t)
                 /\ op[t] = "complete_device_login"
                 /\ arg[t].flow_id \in 1..born)
                    => res[t].kind = AuthenticationFlowNotFound)
    /\ [][SelectedOnlyByChoice]_vars

\* a flow was issued, the process restarted with its accounts persisted,
\* and completing that flow was rejected while the pointer was still null
C19_Witness ==
    \E t \in Threads :
        /\ Returned(t)
        /\ op[t] = "complete_device_login"
        /\ born > 0
        /\ arg[t].flow_id \in 1..born
        /\ res[t].kind = AuthenticationFlowNotFound
        /\ Len(accounts) >= 2
        /\ active = None

\* C20: every failure outcome of the identity provider while exchanging a
\* device flow or refreshing silently (an error result, an empty result, a
\* network failure) reaches the caller as AuthenticationError.
C20_ProviderFailuresAreAuthenticationErrors ==
    \A t \in Threads :
        (/\ Returned(t)
         /\ op[t] \in {"complete_device_login", "acquire_token_silent"}
         /\ res[t].provider \in {"none", "error", "raise"})
            => res[t].kind = AuthenticationError

\* C21: when set_active_account (running alone, the store unchanged)
\* succeeds, the active pointer is the home_account_id of the first account
\* in enumeration order whose home_account_id equals the one given or whose
\* username equals the one given ignoring case, and the returned summary
\* describes that account with is_active true.
C21_SelectionTakesFirstMatch ==
    \A t \in Threads :
        (/\ Sole(t) /\ ~evicted /\ Returned(t)
         /\ op[t] = "set_active_account"
         /\ res[t].kind = "ok")
            => \E i \in DOMAIN accounts :
                /\ \/ (arg[t].home_account_id # None
                        /\ accounts[i].home_account_id = arg[t].home_account_id)
                   \/ (arg[t].username # None
                        /\ Lower(accounts[i].username) = Lower(arg[t].username))
                /\ \A j \in 1..(i - 1) :
                    /\ accounts[j].home_account_id # arg[t].home_account_id
                    /\ (arg[t].username = None
                        \/ Lower(accounts[j].username) # Lower(arg[t].username))
                /\ active = accounts[i].home_account_id
                /\ res[t].account = [username |-> accounts[i].username,
                                     home_account_id |-> accounts[i].home_account_id,
                                     is_active |-> TRUE]

\* a selection by a username that two stored accounts match ignoring case,
\* together with the identifier of the second: the first was activated
C21_Witness ==
    \E t \in Threads :
        /\ Sole(t) /\ ~evicted /\ Returned(t)
        /\ op[t] = "set_active_account"
        /\ res[t].kind = "ok"
        /\ Len(accounts) = 2
        /\ arg[t].username # None
        /\ arg[t].home_account_id = accounts[2].home_account_id
        /\ Lower(accounts[1].username) = Lower(arg[t].username)
        /\ active = accounts[1].home_account_id

\* C22: start_device_login, when the provider returns a user code, adds
\* exactly one entry to the pending set, under a flow id no other pending
\* flow has, and returns that flow id; when the provider returns no user
\* code it fails with AuthenticationError and leaves the pending set and the
\* active pointer unchanged.
C22_StartAddsOneFreshFlow ==
    [][\A t \in Threads :
        (pc[t] = "sd_initiate" /\ pc'[t] = "idle")
        => /\ active' = active
           /\ IF res'[t].provider = "user_code"
                THEN /\ res'[t].kind = "ok"
                     /\ \E e \in pending' :
                            /\ e \notin pending
                            /\ pending' = pending \cup {e}
                            /\ \A d \in pending : d.flow_id # e.flow_id
                            /\ res'[t].flow_id = e.flow_id
                ELSE /\ res'[t].kind = AuthenticationError
                     /\ pending' = pending]_vars

\* a second flow was started while the first was still pending
C22_Witness ==
    \E t \in Threads :
        /\ Returned(t)
        /\ op[t] = "start_device_login"
        /\ res[t].kind = "ok"
        /\ Cardinality(pending) = 2
        /\ \E e \in pending : e.flow_id = res[t].flow_id

\* C23: a complete_device_login whose exchange succeeded (running alone, the
\* store unchanged) activates and returns the first stored account matching
\* the username of the result's account record, else of the
\* preferred_username claim, else of the email claim; with no such username
\* or no match, the last stored account.  When the enumeration is empty the
\* call returns success with a null account and leaves the pointer alone.
C23_LoginActivatesByUsernameThenLast ==
    /\ [](\A t \in Threads :
            (/\ Sole(t) /\ ~evicted /\ Returned(t)
             /\ op[t] = "complete_device_login"
             /\ res[t].kind = "ok")
                => LET r == res[t].result
                       u == IF r.account_username # None THEN r.account_username
                            ELSE IF r.preferred_username # None THEN r.preferred_username
                            ELSE r.email
                       hits == {i \in DOMAIN accounts :
                                    u # None /\ Lower(accounts[i].username) = Lower(u)}
                       chosen == IF hits # {}
                                   THEN accounts[CHOOSE i \in hits : \A j \in hits : i <= j]
                                   ELSE accounts[Len(accounts)]
                   IN  /\ accounts # << >>
                       /\ active = chosen.home_account_id
                       /\ res[t].account = [username |-> chosen.username,
                                            home_account_id |-> chosen.home_account_id,
                                            is_active |-> TRUE])
    /\ [][\A t \in Threads :
            (/\ op[t] = "complete_device_login"
             /\ pc[t] = "cd_all" /\ pc'[t] # "cd_all"
             /\ accounts = << >>)
                => /\ pc'[t] = "idle"
                   /\ res'[t].kind = "ok"
                   /\ res'[t].account = NoSummary
                   /\ active' = active]_vars

\* the result had no account record, a preferred_username claim that two
\* stored accounts match and the alias as email: the first of the two was
\* activated, not the last
C23_Witness ==
    \E t \in Threads :
        /\ Sole(t) /\ ~evicted /\ Returned(t)
        /\ op[t] = "complete_device_login"
        /\ res[t].kind = "ok"
        /\ res[t].result.account_username = None
        /\ res[t].result.preferred_username \notin {None, Alias}
        /\ res[t].result.email = Alias
        /\ Len(accounts) = 2
        /\ active = accounts[1].home_account_id
        /\ res[t].account.home_account_id = accounts[1].home_account_id

\* thread t takes a step of a get_active_account_summary call
SummaryStep(t) ==
    /\ op[t] = "get_active_account_summary"
    /\ pc[t] # "idle"
    /\ (pc'[t] # pc[t] \/ local'[t] # local[t])

\* C24 as amended: no step of get_active_account_summary (running alone)
\* changes the pending-flow set or the token cache, and the only change it
\* makes to the active pointer is to reset to null a pointer that names no
\* stored account.
C24_SummaryOnlyClearsStalePointer ==
    [][\A t \in Threads :
        SummaryStep(t)
        => /\ pending' = pending
           /\ << accounts, rev, dirty, file, lockHolder >>'
                = << accounts, rev, dirty, file, lockHolder >>
           /\ \/ active' = active
              \/ active' = None /\ active \notin HidsOf(accounts)]_vars

\* C24: get_active_account_summary is a read-only projection: calling it
\* changes neither the active pointer, nor the pending-flow set, nor the
\* token cache.
C24_Original ==
    [][\A t \in Threads :
        SummaryStep(t)
        => /\ pending' = pending
           /\ << accounts, rev, dirty, file, lockHolder >>'
                = << accounts, rev, dirty, file, lockHolder >>
           /\ active' = active]_vars

\* the pointer named an account that then left the store, and a
\* get_active_account_summary call returned null and left the pointer null
C24_Witness ==
    \E t \in Threads :
        /\ Sole(t) /\ Returned(t)
        /\ op[t] = "get_active_account_summary"
        /\ res[t].kind = "ok"
        /\ res[t].account = NoSummary
        /\ activeAtStart # None
        /\ activeAtStart \notin HidsOf(accounts)
        /\ active = None

\* what must stay inside the server: the device codes of the flows and the
\* token material of an exchange
Secrets ==
    {DeviceFlow(n).device_code : n \in FlowIds}
        \cup {TokenResponse.access_token, TokenResponse.refresh_token,
              TokenResponse.id_token}

\* C25: what start_device_login returns has only the fields flow_id,
\* user_code, verification_uri, expires_in, interval and message, and what
\* complete_device_login returns has only success, account, expires_in, scope
\* and token_type; no field of either holds a device code, an access token
\* or refresh material.
C25_DeviceFlowResultsCarryNoSecret ==
    \A t \in Threads :
        (Returned(t) /\ res[t].kind = "ok")
        => /\ op[t] = "start_device_login"
                => /\ DOMAIN res[t].payload
                        = {"flow_id", "user_code", "verification_uri",
                           "expires_in", "interval", "message"}
                   /\ \A k \in DOMAIN res[t].payload : res[t].payload[k] \notin Secrets
                   /\ res[t].payload.flow_id = << "flow_id", res[t].flow_id >>
           /\ op[t] = "complete_device_login"
                => /\ DOMAIN res[t].payload
                        = {"success", "account", "expires_in", "scope", "token_type"}
                   /\ \A k \in DOMAIN res[t].payload : res[t].payload[k] \notin Secrets

\* a flow was started and then completed: both results were returned while
\* the device code was in the stored flow and a token in the cache
C25_Witness ==
    \E t \in Threads :
        /\ Returned(t)
        /\ op[t] = "complete_device_login"
        /\ res[t].kind = "ok"
        /\ res[t].payload.account = << "account", 1 >>
        /\ res[t].payload.token_type = TokenResponse.token_type
        /\ passed[arg[t].flow_id] = 1
        /\ DeviceFlow(arg[t].flow_id).device_code \in Secrets

\* C26: while the manager lives, a stored flow stays in the pending set with
\* its context unchanged through every step of every operation, except the
\* lookup step of a complete_device_login call that names its flow id.
C26_PendingFlowStaysUntilNamed ==
    [][\/ Restart
       \/ \A e \in pending :
            \/ e \in pending'
            \/ \E t \in Threads :
                /\ op[t] = "complete_device_login"
                /\ pc[t] = "cd_pop"
                /\ pc'[t] # "cd_pop"
                /\ arg[t].flow_id = e.flow_id]_vars

\* two flows were pending and a complete_device_login naming the second got
\* past the lookup and returned: the first is still pending as it was stored
C26_Witness ==
    \E t \in Threads :
        /\ Returned(t)
        /\ op[t] = "complete_device_login"
        /\ arg[t].flow_id = 2
        /\ passed[2] = 1
        /\ pending = {[flow_id |-> 1, flow |-> DeviceFlow(1)]}

\* C27: auto-selection of the sole account by list_accounts or
\* acquire_token_silent overrides no explicit choice: when one of them
\* overlaps a complete_device_login that activates an account, the pointer
\* after both have returned names the account the complete_device_login
\* chose.
C27_AutoPromotionKeepsExplicitChoice ==
    \A t, u \in Threads :
        (/\ Pair /\ Returned(t) /\ Returned(u)
         /\ op[t] \in {"list_accounts", "acquire_token_silent"}
         /\ op[u] = "complete_device_login"
         /\ res[u].kind = "ok"
         /\ res[u].account # NoSummary)
            => active = res[u].account.home_account_id

\* C28: when acquire_token_silent (running alone, the pointer null at its
\* start) auto-selects the only stored account and the provider then returns
\* no access token, the call fails with AuthenticationError, the pointer
\* stays on the auto-selected account, and the call ends at the provider's
\* answer: the step that gets the provider's answer either goes on with a
\* token or ends the call, leaving the pointer, the cache and the file alone.
C28_FailedSilentKeepsAutoSelection ==
    /\ [](\A t \in Threads :
            (/\ Sole(t) /\ ~evicted /\ Returned(t)
             /\ op[t] = "acquire_token_silent"
             /\ activeAtStart = None
             /\ res[t].provider \in {"none", "error"})
                => /\ res[t].kind = AuthenticationError
                   /\ Len(accounts) = 1
                   /\ active = accounts[1].home_account_id
                   /\ res[t].saved = None
                   /\ res[t].token = None)
    /\ [][\A t \in Threads :
            (/\ op[t] = "acquire_token_silent"
             /\ pc[t] = "at_provider" /\ pc'[t] = "idle")
                => /\ res'[t].provider \in {"none", "error", "raise"}
                   /\ res'[t].provider \in {"none", "error"}
                        => res'[t].kind = AuthenticationError
                   /\ active' = active
                   /\ << accounts, rev, dirty, file, lockHolder >>'
                        = << accounts, rev, dirty, file, lockHolder >>]_vars

\* the pointer was null, the store held one account, the provider answered
\* with an error: the call failed and the pointer is on that account
C28_Witness ==
    \E t \in Threads :
        /\ Sole(t) /\ ~evicted /\ Returned(t)
        /\ op[t] = "acquire_token_silent"
        /\ activeAtStart = None
        /\ res[t].provider = "error"
        /\ res[t].kind = AuthenticationError
        /\ Len(accounts) = 1
        /\ active = accounts[1].home_account_id

\* C29: the snapshot get_context returns (running alone, the store
\* unchanged) is self-consistent: its active_account is non-null exactly when
\* one entry of its available_accounts has is_active true, and then both
\* describe the same account.
C29_ContextSnapshotConsistent ==
    \A t \in Threads :
        (/\ Sole(t) /\ ~evicted /\ Returned(t)
         /\ op[t] = "get_context"
         /\ res[t].kind = "ok")
            => LET flagged == {i \in DOMAIN res[t].accounts : res[t].accounts[i].is_active}
               IN  /\ (res[t].account # NoSummary) <=> (Cardinality(flagged) = 1)
                   /\ res[t].account # NoSummary
                        => \A i \in flagged : res[t].accounts[i] = res[t].account

\* C30: the active drive changes only in the step
\* of a set_active_drive call that follows a successful lookup of the drive
\* it was given, made with a token it acquired; a set_active_drive call that
\* fails (running alone) leaves the active drive as it was.
C30_DriveSetOnlyAfterLookup ==
    [][/\ active_drive_id' # active_drive_id
            => \E t \in Threads :
                /\ op[t] = "set_active_drive"
                /\ pc[t] = "dr_write" /\ pc'[t] = "idle"
                /\ res'[t].kind = "ok"
                /\ res'[t].http = "2xx"
                /\ res'[t].acquired # << >>
                /\ res'[t].sent = res'[t].acquired
                /\ active_drive_id' = arg[t].drive_id
       /\ \A t \in Threads :
            (/\ op[t] = "set_active_drive"
             /\ pc[t] # "idle" /\ pc'[t] = "idle"
             /\ res'[t].kind # "ok")
                => /\ active_drive_id' = active_drive_id
                   /\ res'[t].kind \in {AuthenticationError, GraphAPIError,
                                        TransportError}]_vars

\* a drive was active and a set_active_drive call for another drive failed
\* at the lookup: the first drive is still the active one
C30_Witness ==
    \E t \in Threads :
        /\ Sole(t) /\ Returned(t)
        /\ op[t] = "set_active_drive"
        /\ res[t].kind = GraphAPIError
        /\ res[t].http = "status"
        /\ active_drive_id # None
        /\ active_drive_id # arg[t].drive_id

============================================================================
